---- MODULE Spec2Model ----
(***************************************************************************)
(* Model of the Sagemcom REST router client (sagemcom_mcp/client.py).      *)
(*                                                                         *)
(* The client is single-threaded and synchronous: every public method is   *)
(* one atomic step.  The router and the process environment are inputs     *)
(* of each step.  The variable `last` records the most recent call: its    *)
(* inputs, the HTTP requests it sent and how it ended (a returned value    *)
(* or a raised exception).                                                 *)
(*                                                                         *)
(* Three specifications share the variables.  Spec is one client object    *)
(* and the calls of its methods.  FunctionsSpec applies the module-level   *)
(* functions, the password lookup and the two conversions of a rule to     *)
(* bounded inputs.  FrontSpec is the front-ends (the tools of the MCP      *)
(* server and the commands of the CLI), each call with a client of its     *)
(* own; `last.calls` lists the client methods and subprocesses the call    *)
(* invoked, in order.                                                      *)
(*                                                                         *)
(* Python values: None is the string "None"; a dict whose type the code    *)
(* does not test is a TLA+ record and d.get(k, default) is Get; a JSON     *)
(* value whose type the code tests (isinstance, or an attribute access     *)
(* that only a dict supports) is tagged: [t |-> "dict", v |-> record],     *)
(* [t |-> "list", v |-> sequence], [t |-> "str"], [t |-> "null"].          *)
(* Protocol strings are sequences of characters so that str.replace and    *)
(* str.lower are computed character by character.                          *)
(***************************************************************************)
EXTENDS Integers, Sequences, FiniteSets, TLC

VARIABLES host, port, base_url, token, user_id, last

vars == <<host, port, base_url, token, user_id, last>>

-----------------------------------------------------------------------------
(* Bounds of the model *)

\* longest rule list the router returns
MaxRules == 2

-----------------------------------------------------------------------------
(* Python values *)

None == "None"

\* truth value of a str-or-None, as `if x:` / `if not x:` test it
Truthy(x) == x # None /\ x # ""

\* dict.get(key, default)
Get(d, k, default) == IF k \in DOMAIN d THEN d[k] ELSE default

EmptyDict == [k \in {} |-> None]

Dict(fields) == [t |-> "dict", v |-> fields]
List(items) == [t |-> "list", v |-> items]
JsonStr == [t |-> "str"]
JsonNull == [t |-> "null"]

\* how a call ends
Return(v) == [kind |-> "return", value |-> v]
Raise(e) == [kind |-> "raise", exc |-> e]

\* str.replace(old, new) for one-character old and new
Replace(s, old, new) == [i \in DOMAIN s |-> IF s[i] = old THEN new ELSE s[i]]

-----------------------------------------------------------------------------
(* The HTTP layer (requests): a call either raises a RequestException      *)
(* before a response arrives, or yields a response with a status and a     *)
(* body.  The body is a tagged JSON value, or [t |-> "notjson"].           *)

TransportError == [kind |-> "transport_error"]
Response(status, body) == [kind |-> "response", status |-> status, body |-> body]

\* Response.raise_for_status(): HTTPError for 4xx and 5xx
RaisesForStatus(status) == status >= 400 /\ status < 600

\* a request as the client sends it
Request(method, path, json, headers) ==
  [method |-> method, path |-> path, json |-> json, headers |-> headers]

NoBody == EmptyDict

-----------------------------------------------------------------------------
(* Password resolution *)

\* _get_password_from_1password: the `op` subprocess either prints a JSON
\* object (its "value", None when the key is missing), fails in one of the
\* three ways the method catches, or fails in another way
GetPasswordFrom1Password(op) ==
  CASE op.kind = "stdout" -> Return(op.value)
    [] op.kind = "failed" -> Return(None)
    [] OTHER -> Raise("OSError")

\* _get_password: os.getenv(name, default) with the 1Password lookup as the
\* default argument, which Python evaluates before the call
GetPassword(env, op) ==
  LET fallback == GetPasswordFrom1Password(op)
  IN IF fallback.kind = "raise" THEN fallback
     ELSE Return(IF env # None THEN env ELSE fallback.value)

\* _get_password: the runs of the 1Password CLI it makes. The lookup is an
\* argument of os.getenv, so it runs whatever the variable holds
GetPasswordRuns(env) == <<<<"subprocess.run", "op", "item", "get">>>>

-----------------------------------------------------------------------------
(* The client: self holds the fields of the object; each method yields    *)
(* the new token and user_id, how the call ended and the requests it sent. *)
(* host, port and base_url are assigned by the constructor only.           *)

\* SagemcomRestClient.__init__(**kwargs): the fields of the new object, or
\* the TypeError Python raises for a keyword the signature does not have
ClientInit(kwargs, env_ip) ==
  IF ~(DOMAIN kwargs \subseteq {"host", "port"}) THEN Raise("TypeError")
  ELSE LET host_arg == Get(kwargs, "host", None)
           port_arg == Get(kwargs, "port", 80)
           h == IF Truthy(host_arg) THEN host_arg
                ELSE IF env_ip # None THEN env_ip ELSE "192.168.178.1"
       IN Return([host |-> h, port |-> port_arg,
                  base_url |-> "http://" \o h \o ":" \o ToString(port_arg),
                  token |-> None, user_id |-> None])

Outcome(tok, uid, ret, reqs) ==
  [token |-> tok, user_id |-> uid, ret |-> ret, reqs |-> reqs]

LoginPath == <<"user", "login">>
PortForwardingPath == <<"network", "portforwarding">>

\* _get_auth_headers
GetAuthHeaders(self) ==
  IF ~Truthy(self.token) THEN Raise("ValueError")
  ELSE Return([Authorization |-> <<"Bearer", self.token>>])

\* AuthenticateParse with the token tested by `is not None` instead of by
\* its truth value
AuthenticateParse_TokenNotNone(self, body, json_error_caught, reqs) ==
  IF body.t = "notjson"
  THEN Outcome(self.token, self.user_id,
               IF json_error_caught THEN Return(FALSE) ELSE Raise("ValueError"),
               reqs)
  ELSE IF body.t # "dict"
  THEN Outcome(self.token, self.user_id, Raise("AttributeError"), reqs)
  ELSE LET created == Get(body.v, "created", Dict(EmptyDict))
       IN IF created.t # "dict"
          THEN Outcome(self.token, self.user_id, Raise("AttributeError"), reqs)
          ELSE LET tok == Get(created.v, "token", None)
                   uid == Get(created.v, "userId", None)
               IN Outcome(tok, uid, Return(tok # None), reqs)

\* authenticate, from `data = response.json()` on
AuthenticateParse(self, body, json_error_caught, reqs) ==
  IF body.t = "notjson"
  THEN Outcome(self.token, self.user_id,
               IF json_error_caught THEN Return(FALSE) ELSE Raise("ValueError"),
               reqs)
  ELSE IF body.t # "dict"
  THEN Outcome(self.token, self.user_id, Raise("AttributeError"), reqs)
  ELSE LET created == Get(body.v, "created", Dict(EmptyDict))
       IN IF created.t # "dict"
          THEN Outcome(self.token, self.user_id, Raise("AttributeError"), reqs)
          ELSE LET tok == Get(created.v, "token", None)
                   uid == Get(created.v, "userId", None)
               IN Outcome(tok, uid, Return(Truthy(tok)), reqs)

\* authenticate
Authenticate(self, env, op, http, json_error_caught) ==
  LET password == GetPassword(env, op)
      login == Request("POST", LoginPath, [password |-> password.value],
                       [Connection |-> "keep-alive"])
  IN IF password.kind = "raise"
     THEN Outcome(self.token, self.user_id, password, <<>>)
     ELSE IF ~Truthy(password.value)
     THEN Outcome(self.token, self.user_id, Return(FALSE), <<>>)
     ELSE IF http.kind = "transport_error"
     THEN Outcome(self.token, self.user_id, Return(FALSE), <<login>>)
     ELSE IF RaisesForStatus(http.status)
     THEN Outcome(self.token, self.user_id, Return(FALSE), <<login>>)
     ELSE AuthenticateParse(self, http.body, json_error_caught, <<login>>)

\* GetSessionUrl handing the session over in a deep link when logged in
GetSessionUrl_DeepLink(self) ==
  Outcome(self.token, self.user_id,
          Return(IF Truthy(self.token)
                 THEN self.base_url \o "/?token=" \o self.token
                 ELSE self.base_url),
          <<>>)

\* get_session_url
GetSessionUrl(self) ==
  Outcome(self.token, self.user_id, Return(self.base_url), <<>>)

\* Logout without the early return of a client that holds no token
Logout_TokenNotTested(self, http) ==
  Outcome(None, None, Return(TRUE),
          <<Request("DELETE", <<"user", self.user_id, "token", self.token>>,
                    NoBody, [Authorization |-> <<"Bearer", self.token>>])>>)

\* logout
Logout(self, http) ==
  IF ~Truthy(self.token)
  THEN Outcome(self.token, self.user_id, Return(TRUE), <<>>)
  ELSE Outcome(None, None, Return(TRUE),
               <<Request("DELETE", <<"user", self.user_id, "token", self.token>>,
                         NoBody, GetAuthHeaders(self).value)>>)

-----------------------------------------------------------------------------
(* Rule normalization *)

tcp == <<"t", "c", "p">>
udp == <<"u", "d", "p">>
tcp_udp == <<"t", "c", "p", "_", "u", "d", "p">>

UpperCase == <<"A", "B", "C", "D", "E", "F", "G", "H", "I", "J", "K", "L", "M",
               "N", "O", "P", "Q", "R", "S", "T", "U", "V", "W", "X", "Y", "Z">>
LowerCase == <<"a", "b", "c", "d", "e", "f", "g", "h", "i", "j", "k", "l", "m",
               "n", "o", "p", "q", "r", "s", "t", "u", "v", "w", "x", "y", "z">>

\* str.lower()
Lower(s) ==
  [i \in DOMAIN s |->
     IF \E k \in DOMAIN UpperCase : UpperCase[k] = s[i]
     THEN LowerCase[CHOOSE k \in DOMAIN UpperCase : UpperCase[k] = s[i]]
     ELSE s[i]]

\* ToRestPayload with the protocol passed on as given
ToRestPayload_ProtocolAsGiven(rule) ==
  [rule |-> [localAddress |-> rule.local_address,
             localStartPort |-> rule.local_port,
             localEndPort |-> rule.local_port,
             externalStartPort |-> rule.external_port,
             externalEndPort |-> rule.external_port,
             protocol |-> rule.protocol,
             enable |-> rule.enabled]]

\* ToRestPayload with the two ports exchanged
ToRestPayload_PortsSwapped(rule) ==
  [rule |-> [localAddress |-> rule.local_address,
             localStartPort |-> rule.external_port,
             localEndPort |-> rule.external_port,
             externalStartPort |-> rule.local_port,
             externalEndPort |-> rule.local_port,
             protocol |-> Lower(rule.protocol),
             enable |-> rule.enabled]]

\* PortForwardingRule.to_rest_payload
ToRestPayload(rule) ==
  [rule |-> [localAddress |-> rule.local_address,
             localStartPort |-> rule.local_port,
             localEndPort |-> rule.local_port,
             externalStartPort |-> rule.external_port,
             externalEndPort |-> rule.external_port,
             protocol |-> Lower(rule.protocol),
             enable |-> rule.enabled]]

\* FormatRule with the external port read from the end of the range
FormatRule_EndPort(rule_item) ==
  LET rule_data == rule_item.v.rule
  IN [id |-> Get(rule_item.v, "id", None),
      name |-> IF "id" \in DOMAIN rule_item.v
               THEN "Rule " \o ToString(rule_item.v.id)
               ELSE "Rule Unknown",
      localAddress |-> Get(rule_data, "localAddress", None),
      localPort |-> Get(rule_data, "localStartPort", None),
      externalPort |-> Get(rule_data, "externalEndPort", None),
      protocol |-> Replace(Get(rule_data, "protocol", <<>>), "_", "/"),
      enabled |-> Get(rule_data, "enable", FALSE)]

\* get_port_forwards: the normalized record of one list item
FormatRule(rule_item) ==
  LET rule_data == rule_item.v.rule
  IN [id |-> Get(rule_item.v, "id", None),
      name |-> IF "id" \in DOMAIN rule_item.v
               THEN "Rule " \o ToString(rule_item.v.id)
               ELSE "Rule Unknown",
      localAddress |-> Get(rule_data, "localAddress", None),
      localPort |-> Get(rule_data, "localStartPort", None),
      externalPort |-> Get(rule_data, "externalStartPort", None),
      protocol |-> Replace(Get(rule_data, "protocol", <<>>), "_", "/"),
      enabled |-> Get(rule_data, "enable", FALSE)]

\* get_port_forwards: the loop over rules_list
FormatRules(rules_list) ==
  LET kept == SelectSeq(rules_list,
                        LAMBDA it : it.t = "dict" /\ "rule" \in DOMAIN it.v)
  IN [i \in DOMAIN kept |-> FormatRule(kept[i])]

\* get_port_forwards: from `data = response.json()` to the rules_list that
\* the loop iterates (a dict iterates its keys and a str its characters:
\* neither holds a dict item)
RulesList(body) ==
  IF body.t # "dict" THEN Raise("AttributeError")
  ELSE LET port_forwarding_data == Get(body.v, "portforwarding", Dict(EmptyDict))
       IN IF port_forwarding_data.t = "dict"
          THEN LET rules_list == Get(port_forwarding_data.v, "rules", List(<<>>))
               IN CASE rules_list.t = "list" -> Return(rules_list.v)
                    [] rules_list.t = "null" -> Raise("TypeError")
                    [] OTHER -> Return(<<>>)
          ELSE IF port_forwarding_data.t = "list"
               THEN Return(port_forwarding_data.v)
               ELSE Return(<<>>)

\* get_port_forwards
GetPortForwards(self, http, json_error_caught) ==
  LET headers == GetAuthHeaders(self)
      get == Request("GET", PortForwardingPath, NoBody, headers.value)
      End(ret, reqs) == Outcome(self.token, self.user_id, ret, reqs)
  IN IF headers.kind = "raise" THEN End(headers, <<>>)
     ELSE IF http.kind = "transport_error" THEN End(Return(<<>>), <<get>>)
     ELSE IF RaisesForStatus(http.status) THEN End(Return(<<>>), <<get>>)
     ELSE IF http.body.t = "notjson"
     THEN End(IF json_error_caught THEN Return(<<>>) ELSE Raise("ValueError"),
              <<get>>)
     ELSE LET rules_list == RulesList(http.body)
          IN IF rules_list.kind = "raise" THEN End(rules_list, <<get>>)
             ELSE End(Return(FormatRules(rules_list.value)), <<get>>)

\* AddPortForward sending its POST a second time after a transport failure
AddPortForward_SendsAgain(self, rule, http) ==
  LET payload == ToRestPayload(rule)
      headers == GetAuthHeaders(self)
      post == Request("POST", PortForwardingPath, payload, headers.value)
      End(ret, reqs) == Outcome(self.token, self.user_id, ret, reqs)
  IN IF headers.kind = "raise" THEN End(headers, <<>>)
     ELSE IF http.kind = "transport_error" THEN End(Return(FALSE), <<post, post>>)
     ELSE IF RaisesForStatus(http.status) THEN End(Return(FALSE), <<post>>)
     ELSE End(Return(TRUE), <<post>>)

\* add_port_forward
AddPortForward(self, rule, http) ==
  LET payload == ToRestPayload(rule)
      headers == GetAuthHeaders(self)
      post == Request("POST", PortForwardingPath, payload, headers.value)
      End(ret, reqs) == Outcome(self.token, self.user_id, ret, reqs)
  IN IF headers.kind = "raise" THEN End(headers, <<>>)
     ELSE IF http.kind = "transport_error" THEN End(Return(FALSE), <<post>>)
     ELSE IF RaisesForStatus(http.status) THEN End(Return(FALSE), <<post>>)
     ELSE End(Return(TRUE), <<post>>)

\* OriginalRule with the protocol passed on as normalized
OriginalRule_KeepsSlash(rule_to_delete) ==
  [id |-> Get(rule_to_delete, "id", None),
   rule |-> [localAddress |-> Get(rule_to_delete, "localAddress", None),
             localStartPort |-> Get(rule_to_delete, "localPort", None),
             localEndPort |-> Get(rule_to_delete, "localPort", None),
             externalStartPort |-> Get(rule_to_delete, "externalPort", None),
             externalEndPort |-> Get(rule_to_delete, "externalPort", None),
             protocol |-> Get(rule_to_delete, "protocol", tcp),
             enable |-> Get(rule_to_delete, "enabled", FALSE),
             readOnly |-> FALSE]]

\* _delete_port_forward_rule: the wire form rebuilt from a normalized record
OriginalRule(rule_to_delete) ==
  [id |-> Get(rule_to_delete, "id", None),
   rule |-> [localAddress |-> Get(rule_to_delete, "localAddress", None),
             localStartPort |-> Get(rule_to_delete, "localPort", None),
             localEndPort |-> Get(rule_to_delete, "localPort", None),
             externalStartPort |-> Get(rule_to_delete, "externalPort", None),
             externalEndPort |-> Get(rule_to_delete, "externalPort", None),
             protocol |-> Replace(Get(rule_to_delete, "protocol", tcp), "/", "_"),
             enable |-> Get(rule_to_delete, "enabled", FALSE),
             readOnly |-> FALSE]]

\* DeletePortForwardRule with an except clause that catches connection
\* errors only, so that the HTTPError of raise_for_status escapes
DeletePortForwardRule_HttpErrorEscapes(self, rule_to_delete, http) ==
  LET original_rule == OriginalRule(rule_to_delete)
      headers == GetAuthHeaders(self)
      delete == Request("DELETE", PortForwardingPath,
                        [portforwarding |-> [rules |-> <<original_rule>>]],
                        headers.value)
      End(ret, reqs) == Outcome(self.token, self.user_id, ret, reqs)
  IN IF headers.kind = "raise" THEN End(headers, <<>>)
     ELSE IF http.kind = "transport_error" THEN End(Return(FALSE), <<delete>>)
     ELSE IF RaisesForStatus(http.status) THEN End(Raise("HTTPError"), <<delete>>)
     ELSE End(Return(TRUE), <<delete>>)

\* _delete_port_forward_rule
DeletePortForwardRule(self, rule_to_delete, http) ==
  LET original_rule == OriginalRule(rule_to_delete)
      headers == GetAuthHeaders(self)
      delete == Request("DELETE", PortForwardingPath,
                        [portforwarding |-> [rules |-> <<original_rule>>]],
                        headers.value)
      End(ret, reqs) == Outcome(self.token, self.user_id, ret, reqs)
  IN IF headers.kind = "raise" THEN End(headers, <<>>)
     ELSE IF http.kind = "transport_error" THEN End(Return(FALSE), <<delete>>)
     ELSE IF RaisesForStatus(http.status) THEN End(Return(FALSE), <<delete>>)
     ELSE End(Return(TRUE), <<delete>>)

\* remove_port_forward_by_port: the rules with the given external port
MatchingRules(rules, external_port) ==
  SelectSeq(rules, LAMBDA rule : rule.externalPort = external_port)

\* DeletesRule with the first of several matches taken
DeletesRule_FirstMatch(matching_rules) == Len(matching_rules) >= 1

\* remove_port_forward_by_port: whether the method goes on to delete
DeletesRule(matching_rules) == Len(matching_rules) = 1

\* remove_port_forward_by_port
RemovePortForwardByPort(self, external_port, get_http, json_error_caught, delete_http) ==
  LET got == GetPortForwards(self, get_http, json_error_caught)
  IN IF got.ret.kind = "raise" THEN got
     ELSE LET matching_rules == MatchingRules(got.ret.value, external_port)
          IN IF ~DeletesRule(matching_rules)
             THEN Outcome(self.token, self.user_id, Return(FALSE), got.reqs)
             ELSE LET deleted == DeletePortForwardRule(self, matching_rules[1], delete_http)
                  IN Outcome(self.token, self.user_id, deleted.ret,
                             got.reqs \o deleted.reqs)

-----------------------------------------------------------------------------
(* Inputs: the process environment and the router's answers *)

\* constructor keywords with the value of SAGEMCOM_MODEM_IP: a host given
\* while the variable is set
ClientConfigs ==
  {[kwargs |-> [host |-> "1.2.3.4"], env_ip |-> "10.0.0.1"]}

\* a password handed to the constructor
PasswordConfigs ==
  {[kwargs |-> [host |-> "1.2.3.4", password |-> "pw_direct"], env_ip |-> None]}

\* SAGEMCOM_MODEM_PASSWORD: unset, set to the empty string, set
EnvPasswords == {None, "", "pw_env"}

\* outcomes of the 1Password CLI
OnePasswordOutcomes ==
  {[kind |-> "stdout", value |-> "pw_1p"], [kind |-> "failed"], [kind |-> "other_error"]}

NoResponse == [kind |-> "none"]
NotJson == [t |-> "notjson"]

\* statuses the router answers with besides 200
OtherStatuses == {301, 404, 500}

\* the `created` objects of a login response
CreatedDicts ==
  {tk @@ ui : tk \in {EmptyDict, [token |-> ""], [token |-> "t1"]},
              ui \in {EmptyDict, [userId |-> "u1"]}}

LoginBodies ==
  {NotJson, List(<<>>), Dict(EmptyDict), Dict([created |-> JsonNull]),
   Dict([created |-> JsonStr])}
  \cup {Dict([created |-> Dict(c)]) : c \in CreatedDicts}

\* an error status is tried with every body, a token-carrying one included
LoginOutcomes ==
  {TransportError}
  \cup {Response(200, b) : b \in LoginBodies}
  \cup {Response(401, b) : b \in LoginBodies}

\* wire rules as the router lists them: the two of the client's tests, and
\* a port range that shares its first external port with the first rule
WireRule(id, address, local_start, local_end, ext_start, ext_end, protocol, enable) ==
  Dict([rule |-> [localAddress |-> address,
                  localStartPort |-> local_start, localEndPort |-> local_end,
                  externalStartPort |-> ext_start, externalEndPort |-> ext_end,
                  protocol |-> protocol, enable |-> enable, readOnly |-> FALSE],
        id |-> id])

WireRules ==
  {WireRule(1, "192.168.178.10", 80, 80, 8080, 8080, tcp, TRUE),
   WireRule(2, "192.168.178.11", 22, 22, 2222, 2222, tcp_udp, FALSE),
   WireRule(3, "192.168.178.12", 5000, 5010, 8080, 8090, udp, TRUE)}

\* a list item that is no rule
NotARule == Dict([id |-> 4])

RECURSIVE SeqsUpTo(_, _)
SeqsUpTo(S, n) ==
  IF n = 0 THEN {<<>>}
  ELSE LET shorter == SeqsUpTo(S, n - 1)
       IN shorter \cup {Append(q, x) : q \in shorter, x \in S}

\* the lists of at most MaxRules items, of rules alone or led by the item
\* that is no rule
RuleLists ==
  SeqsUpTo(WireRules, MaxRules)
  \cup {<<NotARule>> \o l : l \in SeqsUpTo(WireRules, MaxRules - 1)}

\* the list nested as the router nests it, directly under `portforwarding`,
\* and as the whole body
Nested(l) == Dict([portforwarding |-> Dict([rules |-> List(l)])])
UnderPortForwarding(l) == Dict([portforwarding |-> List(l)])
BareList(l) == List(l)

GetBodies ==
  {NotJson, Dict(EmptyDict), Dict([portforwarding |-> Dict(EmptyDict)]),
   Dict([portforwarding |-> JsonNull]),
   Dict([portforwarding |-> Dict([rules |-> JsonNull])])}
  \cup {Nested(l) : l \in RuleLists}
  \cup {UnderPortForwarding(l) : l \in RuleLists}
  \cup {BareList(l) : l \in RuleLists}

GetOutcomes ==
  {TransportError}
  \cup {Response(200, b) : b \in GetBodies}
  \cup {Response(s, NotJson) : s \in OtherStatuses}

\* answers to a POST or DELETE of a rule: the body is not read
WriteOutcomes ==
  {TransportError} \cup {Response(s, NotJson) : s \in {200} \cup OtherStatuses}

ExternalPorts == {8080, 2222, 9999}

Rules ==
  {[name |-> "web", local_address |-> "192.168.178.10", local_port |-> 80,
    external_port |-> 8080, protocol |-> p, enabled |-> e] :
     p \in {tcp, tcp_udp, <<"U", "D", "P">>}, e \in BOOLEAN}

\* whether response.json() raises a RequestException subclass (requests
\* 2.27 and later) or a plain ValueError: read only for a body that is not
\* JSON
JsonErrorCaught(http) ==
  IF http.kind = "response" /\ ~RaisesForStatus(http.status) /\ http.body.t = "notjson"
  THEN BOOLEAN ELSE {TRUE}

-----------------------------------------------------------------------------
(* The state machine *)

Self ==
  [host |-> host, port |-> port, base_url |-> base_url,
   token |-> token, user_id |-> user_id]

\* the client a front-end starts with: create_router_client("rest", **kwargs)
\* with keywords the constructor has
Init ==
  \E cfg \in ClientConfigs :
    LET self == ClientInit(cfg.kwargs, cfg.env_ip).value
    IN /\ host = self.host
       /\ port = self.port
       /\ base_url = self.base_url
       /\ token = self.token
       /\ user_id = self.user_id
       /\ last = [op |-> "init"]

\* (an action applies Finish under a conjunction, so that TLC evaluates the
\* call at every step and no value is shared between its workers)
Finish(out, call) ==
  /\ token' = out.token
  /\ user_id' = out.user_id
  /\ last' = call @@ [ret |-> out.ret, reqs |-> out.reqs]
  /\ UNCHANGED <<host, port, base_url>>

\* create_router_client("rest", **kwargs): the caller's client variable is
\* bound to the new object, or keeps the old one when the constructor raises
CreateRouterClientCall ==
  \E cfg \in ClientConfigs \cup PasswordConfigs :
    LET made == ClientInit(cfg.kwargs, cfg.env_ip)
    IN /\ last' = [op |-> "create_router_client", kwargs |-> cfg.kwargs,
                   env_ip |-> cfg.env_ip, reqs |-> <<>>,
                   ret |-> IF made.kind = "raise" THEN made
                           ELSE Return("client")]
       /\ IF made.kind = "raise"
          THEN UNCHANGED <<host, port, base_url, token, user_id>>
          ELSE /\ host' = made.value.host
               /\ port' = made.value.port
               /\ base_url' = made.value.base_url
               /\ token' = made.value.token
               /\ user_id' = made.value.user_id

GetSessionUrlCall ==
  /\ Finish(GetSessionUrl(Self), [op |-> "get_session_url"])

\* authenticate sends the login request only with a password in hand
SendsLogin(env, op) ==
  GetPassword(env, op).kind = "return" /\ Truthy(GetPassword(env, op).value)

AuthenticateCall ==
  \E env \in EnvPasswords, op \in OnePasswordOutcomes :
    \E http \in (IF SendsLogin(env, op) THEN LoginOutcomes ELSE {NoResponse}) :
      \E caught \in JsonErrorCaught(http) :
        /\ Finish(Authenticate(Self, env, op, http, caught),
                  [op |-> "authenticate", env |-> env, onepassword |-> op,
                   http |-> http])

LogoutCall ==
  \E http \in (IF Truthy(token) THEN WriteOutcomes ELSE {NoResponse}) :
    /\ Finish(Logout(Self, http), [op |-> "logout", http |-> http])

GetPortForwardsCall ==
  \E http \in (IF Truthy(token) THEN GetOutcomes ELSE {NoResponse}) :
    \E caught \in JsonErrorCaught(http) :
      /\ Finish(GetPortForwards(Self, http, caught),
                [op |-> "get_port_forwards", http |-> http])

AddPortForwardCall ==
  \E rule \in Rules :
    \E http \in (IF Truthy(token) THEN WriteOutcomes ELSE {NoResponse}) :
      /\ Finish(AddPortForward(Self, rule, http),
                [op |-> "add_port_forward", rule |-> rule, http |-> http])

RemovePortForwardByPortCall ==
  \E external_port \in ExternalPorts :
    \E get_http \in (IF Truthy(token) THEN GetOutcomes ELSE {NoResponse}) :
      \E caught \in JsonErrorCaught(get_http) :
        LET got == GetPortForwards(Self, get_http, caught)
            deletes == /\ got.ret.kind = "return"
                       /\ DeletesRule(MatchingRules(got.ret.value, external_port))
        IN \E delete_http \in (IF deletes THEN WriteOutcomes ELSE {NoResponse}) :
             /\ Finish(RemovePortForwardByPort(Self, external_port, get_http, caught,
                                               delete_http),
                       [op |-> "remove_port_forward_by_port",
                        external_port |-> external_port,
                        http |-> get_http, delete_http |-> delete_http])

Next ==
  \/ CreateRouterClientCall
  \/ GetSessionUrlCall
  \/ AuthenticateCall
  \/ LogoutCall
  \/ GetPortForwardsCall
  \/ AddPortForwardCall
  \/ RemovePortForwardByPortCall

Spec == Init /\ [][Next]_vars

-----------------------------------------------------------------------------
(* The module-level functions validate_port and expand_ip_shorthand, and   *)
(* the two conversions of a rule.  A value whose type int() or isdigit()   *)
(* depends on is tagged: PyInt(n), PyStr(characters), PyNone.  A string is *)
(* a sequence of one-character strings; "sup2" stands for the single       *)
(* character SUPERSCRIPT TWO (U+00B2), which str.isdigit() accepts and     *)
(* int() does not.                                                         *)

PyInt(n) == [t |-> "int", v |-> n]
PyStr(s) == [t |-> "str", v |-> s]
PyNone == [t |-> "NoneType"]

DecimalDigits == <<"0", "1", "2", "3", "4", "5", "6", "7", "8", "9">>

IsDecimal(c) == \E k \in DOMAIN DecimalDigits : DecimalDigits[k] = c

DigitValue(c) == (CHOOSE k \in DOMAIN DecimalDigits : DecimalDigits[k] = c) - 1

\* str.isdigit(): a non-empty string of characters with the digit property
IsDigit(s) == s # <<>> /\ \A i \in DOMAIN s : IsDecimal(s[i]) \/ s[i] = "sup2"

RECURSIVE DecimalValue(_)
DecimalValue(s) ==
  IF s = <<>> THEN 0
  ELSE 10 * DecimalValue(SubSeq(s, 1, Len(s) - 1)) + DigitValue(s[Len(s)])

RECURSIVE Strip(_)
\* str.strip() of blanks, which int() applies first
Strip(s) ==
  IF s # <<>> /\ s[1] = " " THEN Strip(Tail(s))
  ELSE IF s # <<>> /\ s[Len(s)] = " " THEN Strip(SubSeq(s, 1, Len(s) - 1))
  ELSE s

\* int(x): an int is itself; a string is blanks, an optional sign and
\* decimal digits (digit-group underscores are not among the inputs);
\* anything else of a string is a ValueError, None is a TypeError
IntOf(x) ==
  CASE x.t = "int" -> Return(x.v)
    [] x.t = "str" ->
         LET stripped == Strip(x.v)
             signed == stripped # <<>> /\ stripped[1] \in {"+", "-"}
             digits == IF signed THEN Tail(stripped) ELSE stripped
         IN IF digits = <<>> \/ \E i \in DOMAIN digits : ~IsDecimal(digits[i])
            THEN Raise("ValueError")
            ELSE Return(IF signed /\ stripped[1] = "-"
                        THEN 0 - DecimalValue(digits) ELSE DecimalValue(digits))
    [] OTHER -> Raise("TypeError")

\* ValidatePort with 0 let through
ValidatePort_FromZero(port_) ==
  LET port_num == IntOf(port_)
  IN IF port_num.kind = "raise" THEN Return(FALSE)
     ELSE Return(0 <= port_num.value /\ port_num.value <= 65535)

\* validate_port: both exceptions int() raises are caught
ValidatePort(port_) ==
  LET port_num == IntOf(port_)
  IN IF port_num.kind = "raise" THEN Return(FALSE)
     ELSE Return(1 <= port_num.value /\ port_num.value <= 65535)

SubnetPrefix == <<"1", "9", "2", ".", "1", "6", "8", ".", "1", "7", "8", ".">>

\* expand_ip_shorthand: `and` evaluates int(ip) only after ip.isdigit()
ExpandIpShorthand(ip) ==
  IF ~IsDigit(ip) THEN Return(ip)
  ELSE LET n == IntOf(PyStr(ip))
       IN IF n.kind = "raise" THEN n
          ELSE IF 1 <= n.value /\ n.value <= 254 THEN Return(SubnetPrefix \o ip)
          ELSE Return(ip)

-----------------------------------------------------------------------------
(* The functions applied to bounded inputs, without a client *)

\* arguments of validate_port: integers around both ends of the range,
\* strings that int() parses and strings it rejects, and None
PortInputs ==
  {PyInt(n) : n \in {0 - 1, 0, 1, 8080, 65535, 65536}}
  \cup {PyStr(s) : s \in {<<"0">>, <<"1">>, <<"8", "0", "8", "0">>,
                          <<"6", "5", "5", "3", "5">>, <<"6", "5", "5", "3", "6">>,
                          <<"0", "8", "0">>, <<" ", "8", "0">>, <<"-", "5">>,
                          <<>>, <<"a", "b", "c">>, <<"8", "0", "a">>,
                          <<"8", "0", ".", "5">>}}
  \cup {PyNone}

\* arguments of expand_ip_shorthand
IpInputs ==
  {<<"1">>, <<"1", "0", "0">>, <<"2", "5", "4">>, <<"0", "0", "7">>,
   <<"0">>, <<"2", "5", "5">>, <<"2", "5", "6">>,
   <<"1", "9", "2", ".", "1", "6", "8", ".", "1", ".", "5", "0">>,
   <<"i", "n", "v", "a", "l", "i", "d">>, <<>>, <<"sup2">>,
   SubnetPrefix \o <<"1", "0", "0">>}

\* rules within the rule invariant: ports at both ends of the range and
\* between, every protocol, enabled or not
LogicalRules ==
  {[name |-> "web", local_address |-> "192.168.178.10", local_port |-> lp,
    external_port |-> ep, protocol |-> p, enabled |-> e] :
     lp \in {1, 80, 65535}, ep \in {1, 8080, 65535}, p \in {tcp, udp, tcp_udp},
     e \in BOOLEAN}

\* ids the router gives a stored rule
StoredIds == {1, 7}

NoClient ==
  /\ host = None
  /\ port = None
  /\ base_url = None
  /\ token = None
  /\ user_id = None

FunctionsInit == NoClient /\ last = [op |-> "start"]

Applied(call) ==
  /\ last' = call
  /\ UNCHANGED <<host, port, base_url, token, user_id>>

ValidatePortCall ==
  \E p \in PortInputs :
    /\ Applied([op |-> "validate_port", port |-> p, ret |-> ValidatePort(p)])

ExpandIpShorthandCall ==
  \E ip \in IpInputs :
    /\ Applied([op |-> "expand_ip_shorthand", ip |-> ip, ret |-> ExpandIpShorthand(ip)])

ToRestPayloadCall ==
  \E rule \in LogicalRules :
    /\ Applied([op |-> "to_rest_payload", rule |-> rule, ret |-> ToRestPayload(rule)])

\* the payload of the last to_rest_payload comes back as a list item under
\* an id and goes through the normalization of get_port_forwards
FormatRulesCall ==
  /\ last.op = "to_rest_payload"
  /\ \E id \in StoredIds :
       LET item == Dict([id |-> id, rule |-> last.ret.rule])
       IN Applied([op |-> "format_rules", rule |-> last.rule, item |-> item,
                   ret |-> FormatRules(<<item>>)])

GetPasswordCall ==
  \E env \in EnvPasswords, op \in OnePasswordOutcomes :
    /\ Applied([op |-> "_get_password", env |-> env, onepassword |-> op,
                ret |-> GetPassword(env, op), runs |-> GetPasswordRuns(env)])

FunctionsNext ==
  \/ GetPasswordCall
  \/ ValidatePortCall
  \/ ExpandIpShorthandCall
  \/ ToRestPayloadCall
  \/ FormatRulesCall

FunctionsSpec == FunctionsInit /\ [][FunctionsNext]_vars

-----------------------------------------------------------------------------
(* The front-ends: the MCP tool open_port (server.py) and the CLI command  *)
(* `open` (cli.py).  Each invocation creates its own client; a front-end   *)
(* call ends with the fields of that client (all None when it created      *)
(* none), its result, the requests it sent and, in order, the calls it     *)
(* made on its clients and the browser launch.  env is the process         *)
(* environment: [ip, password, onepassword].                               *)

NoSelf ==
  [host |-> None, port |-> None, base_url |-> None, token |-> None,
   user_id |-> None]

Ended(self, ret, reqs, calls) ==
  [self |-> self, ret |-> ret, reqs |-> reqs, calls |-> calls]

\* a call of a client method or of the factory, as an entry of calls
Called(name) == <<name>>

\* subprocess.run(["open", url]) as an entry of calls
Launched(url) == <<"subprocess.run", "open", url>>

\* the client object after a method call
After(self, out) == [self EXCEPT !.token = out.token, !.user_id = out.user_id]

\* server.get_authenticated_client
GetAuthenticatedClient(env, http, json_error_caught) ==
  LET client == ClientInit(EmptyDict, env.ip).value
      out == Authenticate(client, env.password, env.onepassword, http,
                          json_error_caught)
  IN Ended(After(client, out),
           IF out.ret.kind = "raise" THEN out.ret
           ELSE IF ~out.ret.value THEN Raise("Exception")
           ELSE Return("client"),
           out.reqs,
           <<Called("create_router_client"), Called("authenticate")>>)

\* CleanupClientSession with the session left open
CleanupClientSession_NoLogout(client, http) ==
  Ended(client, Return(None), <<>>, <<>>)

\* server.cleanup_client_session: whatever logout raises is swallowed
CleanupClientSession(client, http) ==
  LET out == Logout(client, http)
  IN Ended(After(client, out), Return(None), out.reqs, <<Called("logout")>>)

\* the text a tool returns from `except Exception as e`
ErrorText(exc) == "Error: " \o exc

\* server.open_port
ServerOpenPort(args, env, login_http, json_error_caught, add_http, logout_http) ==
  IF \/ ~ValidatePort(PyInt(args.local_port)).value
     \/ ~ValidatePort(PyInt(args.external_port)).value
  THEN Ended(NoSelf, Return("Error: Invalid port number(s)"), <<>>, <<>>)
  ELSE
    LET local_address == ExpandIpShorthand(args.local_address)
    IN IF local_address.kind = "raise"
       THEN Ended(NoSelf, Return(ErrorText(local_address.exc)), <<>>, <<>>)
       ELSE
         LET got == GetAuthenticatedClient(env, login_http, json_error_caught)
         IN IF got.ret.kind = "raise"
            THEN Ended(got.self, Return(ErrorText(got.ret.exc)), got.reqs,
                       got.calls)
            ELSE
              LET rule == [name |-> args.name,
                           local_address |-> local_address.value,
                           local_port |-> args.local_port,
                           external_port |-> args.external_port,
                           protocol |-> args.protocol, enabled |-> TRUE]
                  added == AddPortForward(got.self, rule, add_http)
                  cleaned == CleanupClientSession(After(got.self, added),
                                                  logout_http)
              IN Ended(cleaned.self,
                       IF added.ret.kind = "raise"
                       THEN Return(ErrorText(added.ret.exc))
                       ELSE IF added.ret.value
                       THEN Return("Successfully opened port")
                       ELSE Return("Error: Failed to create port forwarding rule"),
                       got.reqs \o added.reqs \o cleaned.reqs,
                       got.calls \o <<Called("add_port_forward")>>
                         \o cleaned.calls)

\* server.close_port
ServerClosePort(external_port, env, login_http, json_error_caught, get_http, get_json_error_caught, delete_http, logout_http) ==
  IF ~ValidatePort(PyInt(external_port)).value
  THEN Ended(NoSelf, Return("Error: Invalid port number"), <<>>, <<>>)
  ELSE
    LET got == GetAuthenticatedClient(env, login_http, json_error_caught)
    IN IF got.ret.kind = "raise"
       THEN Ended(got.self, Return(ErrorText(got.ret.exc)), got.reqs, got.calls)
       ELSE
         LET removed == RemovePortForwardByPort(got.self, external_port, get_http,
                                                get_json_error_caught, delete_http)
             cleaned == CleanupClientSession(After(got.self, removed), logout_http)
         IN Ended(cleaned.self,
                  IF removed.ret.kind = "raise"
                  THEN Return(ErrorText(removed.ret.exc))
                  ELSE IF removed.ret.value
                  THEN Return("Successfully closed port forwarding rule")
                  ELSE Return("Error: Failed to remove port forwarding rule"),
                  got.reqs \o removed.reqs \o cleaned.reqs,
                  got.calls \o <<Called("remove_port_forward_by_port")>>
                    \o cleaned.calls)

\* server.list_port_forwards; of the text of a non-empty listing only the
\* heading is kept
ServerListPortForwards(env, login_http, json_error_caught, get_http, get_json_error_caught, logout_http) ==
  LET got == GetAuthenticatedClient(env, login_http, json_error_caught)
  IN IF got.ret.kind = "raise"
     THEN Ended(got.self, Return(ErrorText(got.ret.exc)), got.reqs, got.calls)
     ELSE
       LET listed == GetPortForwards(got.self, get_http, get_json_error_caught)
           cleaned == CleanupClientSession(After(got.self, listed), logout_http)
       IN Ended(cleaned.self,
                IF listed.ret.kind = "raise"
                THEN Return(ErrorText(listed.ret.exc))
                ELSE IF listed.ret.value = <<>>
                THEN Return("No port forwarding rules found")
                ELSE Return("Current port forwarding rules:"),
                got.reqs \o listed.reqs \o cleaned.reqs,
                got.calls \o <<Called("get_port_forwards")>> \o cleaned.calls)

\* server.get_router_session_url
ServerGetRouterSessionUrl(env) ==
  LET client == ClientInit(EmptyDict, env.ip).value
      session_url == GetSessionUrl(client).ret.value
  IN Ended(client, Return("Router web interface: " \o session_url), <<>>,
           <<Called("create_router_client"), Called("get_session_url")>>)

\* server.logout
ServerLogout(env, login_http, json_error_caught, logout_http) ==
  LET got == GetAuthenticatedClient(env, login_http, json_error_caught)
  IN IF got.ret.kind = "raise"
     THEN Ended(got.self, Return(ErrorText(got.ret.exc)), got.reqs, got.calls)
     ELSE LET out == Logout(got.self, logout_http)
          IN Ended(After(got.self, out),
                   Return("Successfully logged out of router"),
                   got.reqs \o out.reqs, got.calls \o <<Called("logout")>>)

\* server.open_router_in_browser: a failed login is swallowed, the URL comes
\* from a second client, and browser is how subprocess.run ended.  The
\* client the call ends with is the first one, which held the session.
ServerOpenRouterInBrowser(env, login_http, json_error_caught, logout_http, browser) ==
  LET got == GetAuthenticatedClient(env, login_http, json_error_caught)
      out == Logout(got.self, logout_http)
      freed == IF got.ret.kind = "raise" THEN got
               ELSE Ended(After(got.self, out), Return(TRUE),
                          got.reqs \o out.reqs,
                          got.calls \o <<Called("logout")>>)
      client == ClientInit(EmptyDict, env.ip).value
      session_url == GetSessionUrl(client).ret.value
  IN Ended(freed.self,
           IF browser = "ok"
           THEN Return("Opened router web interface in browser: " \o session_url)
           ELSE IF browser = "CalledProcessError"
           THEN Return("Error: Failed to open browser")
           ELSE Return(ErrorText(browser)),
           freed.reqs,
           freed.calls \o <<Called("create_router_client"),
                            Called("get_session_url"), Launched(session_url)>>)

\* cli.open_port(args), args as argparse leaves them
CliOpenPort(args, env, login_http, json_error_caught, add_http) ==
  IF \/ args.name = <<>> \/ args.local_address = <<>>
     \/ args.local_port = 0 \/ args.external_port = 0
  THEN Ended(NoSelf, Return(FALSE), <<>>, <<>>)
  ELSE IF \/ ~ValidatePort(PyInt(args.local_port)).value
          \/ ~ValidatePort(PyInt(args.external_port)).value
  THEN Ended(NoSelf, Return(FALSE), <<>>, <<>>)
  ELSE
    LET local_addr == ExpandIpShorthand(args.local_address)
        client == ClientInit([host |-> args.host], env.ip).value
        out == Authenticate(client, env.password, env.onepassword, login_http,
                            json_error_caught)
        rule == [name |-> args.name, local_address |-> local_addr.value,
                 local_port |-> args.local_port,
                 external_port |-> args.external_port,
                 protocol |-> args.protocol, enabled |-> TRUE]
        added == AddPortForward(After(client, out), rule, add_http)
        began == <<Called("create_router_client"), Called("authenticate")>>
    IN IF local_addr.kind = "raise" THEN Ended(NoSelf, local_addr, <<>>, <<>>)
       ELSE IF out.ret.kind = "raise" \/ ~out.ret.value
       THEN Ended(After(client, out), out.ret, out.reqs, began)
       ELSE Ended(After(After(client, out), added), added.ret,
                  out.reqs \o added.reqs,
                  began \o <<Called("add_port_forward")>>)

\* cli.main for `open`: argparse converts both ports with int and checks
\* the protocol against its choices, exiting with status 2 on an error;
\* main returns 0 when open_port succeeded and 1 otherwise
CliMain(argv, env, login_http, json_error_caught, add_http) ==
  LET local_port == IntOf(PyStr(argv.local_port))
      external_port == IntOf(PyStr(argv.external_port))
  IN IF \/ local_port.kind = "raise" \/ external_port.kind = "raise"
        \/ argv.protocol \notin {tcp, udp, tcp_udp}
     THEN Ended(NoSelf, Raise("SystemExit"), <<>>, <<>>)
     ELSE
       LET args == [name |-> argv.name, local_address |-> argv.local_address,
                    local_port |-> local_port.value,
                    external_port |-> external_port.value,
                    protocol |-> argv.protocol, host |-> argv.host]
           done == CliOpenPort(args, env, login_http, json_error_caught, add_http)
       IN Ended(done.self,
                IF done.ret.kind = "raise" THEN done.ret
                ELSE Return(IF done.ret.value THEN 0 ELSE 1),
                done.reqs, done.calls)

\* what cli.main returns for the result of a command function
ExitStatus(done) ==
  Ended(done.self,
        IF done.ret.kind = "raise" THEN done.ret
        ELSE Return(IF done.ret.value THEN 0 ELSE 1),
        done.reqs, done.calls)

\* cli.close_port(args)
CliClosePort(args, env, login_http, json_error_caught, get_http, get_json_error_caught, delete_http) ==
  IF args.port = 0 THEN Ended(NoSelf, Return(FALSE), <<>>, <<>>)
  ELSE IF ~ValidatePort(PyInt(args.port)).value
  THEN Ended(NoSelf, Return(FALSE), <<>>, <<>>)
  ELSE
    LET client == ClientInit([host |-> args.host], env.ip).value
        out == Authenticate(client, env.password, env.onepassword, login_http,
                            json_error_caught)
        removed == RemovePortForwardByPort(After(client, out), args.port,
                                           get_http, get_json_error_caught,
                                           delete_http)
        began == <<Called("create_router_client"), Called("authenticate")>>
    IN IF out.ret.kind = "raise" \/ ~out.ret.value
       THEN Ended(After(client, out), out.ret, out.reqs, began)
       ELSE Ended(After(After(client, out), removed), removed.ret,
                  out.reqs \o removed.reqs,
                  began \o <<Called("remove_port_forward_by_port")>>)

\* cli.main for `close`: argparse converts the port with int
CliMainClose(argv, env, login_http, json_error_caught, get_http, get_json_error_caught, delete_http) ==
  LET port_ == IntOf(PyStr(argv.port))
  IN IF port_.kind = "raise" THEN Ended(NoSelf, Raise("SystemExit"), <<>>, <<>>)
     ELSE ExitStatus(CliClosePort([port |-> port_.value, host |-> argv.host],
                                  env, login_http, json_error_caught, get_http,
                                  get_json_error_caught, delete_http))

\* cli.list_ports(args): once the rules are fetched every path returns True
CliListPorts(args, env, login_http, json_error_caught, get_http, get_json_error_caught) ==
  LET client == ClientInit([host |-> args.host], env.ip).value
      out == Authenticate(client, env.password, env.onepassword, login_http,
                          json_error_caught)
      listed == GetPortForwards(After(client, out), get_http,
                                get_json_error_caught)
      began == <<Called("create_router_client"), Called("authenticate")>>
  IN IF out.ret.kind = "raise" \/ ~out.ret.value
     THEN Ended(After(client, out), out.ret, out.reqs, began)
     ELSE Ended(After(After(client, out), listed),
                IF listed.ret.kind = "raise" THEN listed.ret ELSE Return(TRUE),
                out.reqs \o listed.reqs,
                began \o <<Called("get_port_forwards")>>)

\* cli.main for `list`
CliMainList(argv, env, login_http, json_error_caught, get_http, get_json_error_caught) ==
  ExitStatus(CliListPorts(argv, env, login_http, json_error_caught, get_http,
                          get_json_error_caught))

\* CliOpenBrowser with the browser launched while the session is open
CliOpenBrowser_KeepsSession(args, env, login_http, json_error_caught, logout_http, browser) ==
  LET client == ClientInit([host |-> args.host], env.ip).value
      out == Authenticate(client, env.password, env.onepassword, login_http,
                          json_error_caught)
      session_url == GetSessionUrl(After(client, out)).ret.value
      began == <<Called("create_router_client"), Called("authenticate")>>
      asked == began \o <<Called("get_session_url")>>
  IN IF out.ret.kind = "raise" \/ ~out.ret.value
     THEN Ended(After(client, out), out.ret, out.reqs, began)
     ELSE IF args.json
     THEN Ended(After(client, out), Return(TRUE), out.reqs, asked)
     ELSE Ended(After(client, out), Return(browser = "ok"), out.reqs,
                asked \o <<Launched(session_url)>>)

\* cli.open_browser(args): with --json the URL is printed and no browser is
\* launched; both failures of subprocess.run are caught
CliOpenBrowser(args, env, login_http, json_error_caught, logout_http, browser) ==
  LET client == ClientInit([host |-> args.host], env.ip).value
      out == Authenticate(client, env.password, env.onepassword, login_http,
                          json_error_caught)
      freed == Logout(After(client, out), logout_http)
      session_url == GetSessionUrl(After(After(client, out), freed)).ret.value
      began == <<Called("create_router_client"), Called("authenticate")>>
      asked == began \o <<Called("logout"), Called("get_session_url")>>
  IN IF out.ret.kind = "raise" \/ ~out.ret.value
     THEN Ended(After(client, out), out.ret, out.reqs, began)
     ELSE IF args.json
     THEN Ended(After(After(client, out), freed), Return(TRUE),
                out.reqs \o freed.reqs, asked)
     ELSE Ended(After(After(client, out), freed), Return(browser = "ok"),
                out.reqs \o freed.reqs, asked \o <<Launched(session_url)>>)

\* cli.main for `browser`
CliMainBrowser(argv, env, login_http, json_error_caught, logout_http, browser) ==
  ExitStatus(CliOpenBrowser(argv, env, login_http, json_error_caught,
                            logout_http, browser))

-----------------------------------------------------------------------------
(* The front-ends applied to bounded inputs *)

\* process environments: SAGEMCOM_MODEM_IP, SAGEMCOM_MODEM_PASSWORD and the
\* outcome of the 1Password CLI
Environments ==
  {[ip |-> None, password |-> "pw_env", onepassword |-> [kind |-> "failed"]],
   [ip |-> "10.0.0.1", password |-> None,
    onepassword |-> [kind |-> "stdout", value |-> "pw_1p"]],
   [ip |-> None, password |-> None, onepassword |-> [kind |-> "failed"]],
   [ip |-> None, password |-> "pw_env", onepassword |-> [kind |-> "other_error"]]}

\* answers to the login request of a front-end call
FrontLoginOutcomes ==
  {TransportError, Response(401, NotJson), Response(200, NotJson),
   Response(200, List(<<>>)),
   Response(200, Dict([created |-> Dict([token |-> "", userId |-> "u1"])])),
   Response(200, Dict([created |-> Dict([token |-> "t1", userId |-> "u1"])]))}

\* answers to the DELETE of cleanup_client_session: logout reads none
LogoutOutcomes == {TransportError, Response(200, NotJson)}

icmp == <<"i", "c", "m", "p">>

DottedAddress ==
  <<"1", "9", "2", ".", "1", "6", "8", ".", "1", ".", "5", "0">>

\* arguments of the MCP tool open_port
ToolArgs ==
  {[name |-> <<"w", "e", "b">>, local_address |-> a, local_port |-> lp,
    external_port |-> ep, protocol |-> p] :
     a \in {<<"1", "0", "0">>, DottedAddress}, lp \in {0, 80},
     ep \in {8080, 65536}, p \in {tcp, icmp}}

\* command line of `sagemcom-cli open`
CommandLines ==
  {[name |-> <<"w", "e", "b">>, local_address |-> <<"1", "0", "0">>,
    local_port |-> lp, external_port |-> ep, protocol |-> p,
    host |-> "192.168.178.1"] :
     lp \in {<<"8", "0">>, <<"0">>, <<"a", "b", "c">>},
     ep \in {<<"8", "0", "8", "0">>, <<"6", "5", "5", "3", "6">>},
     p \in {tcp_udp, icmp}}

\* process environments of the calls other than `open`: a password in the
\* environment, and none anywhere
SessionEnvironments ==
  {env \in Environments : env.ip = None /\ env.onepassword.kind = "failed"}

\* answers to the GET of a front-end call: a failed transport, the one rule
\* forwarding 8080, and a body that is a list
FrontGetOutcomes ==
  {TransportError,
   Response(200, Nested(<<WireRule(1, "192.168.178.10", 80, 80, 8080, 8080,
                                   tcp, TRUE)>>)),
   Response(200, BareList(<<>>))}

\* answers to the DELETE of a rule
FrontDeleteOutcomes == {TransportError, Response(200, NotJson)}

\* external_port of the MCP tool close_port
ClosePorts == {0, 8080, 65536}

\* command line of `sagemcom-cli close`
CloseCommandLines ==
  {[port |-> p, host |-> "192.168.178.1"] :
     p \in {<<"0">>, <<"8", "0", "8", "0">>, <<"a", "b", "c">>}}

\* command line of `sagemcom-cli list` and `sagemcom-cli browser`
SessionCommandLines == {[host |-> "192.168.178.1", json |-> j] : j \in BOOLEAN}

\* how subprocess.run(["open", url], check=True) ends
BrowserOutcomes == {"ok", "CalledProcessError", "FileNotFoundError"}

FrontInit == NoClient /\ last = [op |-> "start"]

\* the client of the call is the one the variables describe afterwards
FrontFinish(done) ==
  /\ host' = done.self.host
  /\ port' = done.self.port
  /\ base_url' = done.self.base_url
  /\ token' = done.self.token
  /\ user_id' = done.self.user_id

ServerOpenPortCall ==
  \E args \in ToolArgs, env \in Environments :
    LET starts == /\ ValidatePort(PyInt(args.local_port)).value
                  /\ ValidatePort(PyInt(args.external_port)).value
                  /\ ExpandIpShorthand(args.local_address).kind = "return"
                  /\ SendsLogin(env.password, env.onepassword)
    IN \E login_http \in (IF starts THEN FrontLoginOutcomes ELSE {NoResponse}) :
         \E caught \in JsonErrorCaught(login_http) :
           LET logged_in ==
                 /\ starts
                 /\ GetAuthenticatedClient(env, login_http, caught).ret.kind
                      = "return"
           IN \E add_http \in (IF logged_in THEN WriteOutcomes ELSE {NoResponse}),
                 logout_http \in (IF logged_in THEN LogoutOutcomes
                                  ELSE {NoResponse}) :
                /\ \E done \in {ServerOpenPort(args, env, login_http, caught,
                                              add_http, logout_http)} :
                     /\ FrontFinish(done)
                     /\ last' = [op |-> "server.open_port", args |-> args,
                                 env |-> env, login_http |-> login_http,
                                 add_http |-> add_http,
                                 logout_http |-> logout_http,
                                 ret |-> done.ret, reqs |-> done.reqs,
                                 calls |-> done.calls]

CliMainCall ==
  \E argv \in CommandLines, env \in Environments :
    LET parsed == /\ IntOf(PyStr(argv.local_port)).kind = "return"
                  /\ IntOf(PyStr(argv.external_port)).kind = "return"
                  /\ ValidatePort(PyStr(argv.local_port)).value
                  /\ ValidatePort(PyStr(argv.external_port)).value
                  /\ argv.protocol \in {tcp, udp, tcp_udp}
                  /\ ExpandIpShorthand(argv.local_address).kind = "return"
                  /\ SendsLogin(env.password, env.onepassword)
    IN \E login_http \in (IF parsed THEN FrontLoginOutcomes ELSE {NoResponse}) :
         \E caught \in JsonErrorCaught(login_http) :
           LET client == ClientInit([host |-> argv.host], env.ip).value
               logged_in ==
                 /\ parsed
                 /\ Authenticate(client, env.password, env.onepassword,
                                 login_http, caught).ret = Return(TRUE)
           IN \E add_http \in (IF logged_in THEN WriteOutcomes ELSE {NoResponse}) :
                /\ \E done \in {CliMain(argv, env, login_http, caught, add_http)} :
                     /\ FrontFinish(done)
                     /\ last' = [op |-> "cli.main open", argv |-> argv,
                                 env |-> env, login_http |-> login_http,
                                 add_http |-> add_http,
                                 ret |-> done.ret, reqs |-> done.reqs,
                                 calls |-> done.calls]

\* whether the GET of remove_port_forward_by_port is followed by a DELETE
FrontDeletes(self, get_http, external_port) ==
  LET got == GetPortForwards(self, get_http, TRUE)
  IN /\ got.ret.kind = "return"
     /\ DeletesRule(MatchingRules(got.ret.value, external_port))

ServerClosePortCall ==
  \E external_port \in ClosePorts, env \in SessionEnvironments :
    LET starts == /\ ValidatePort(PyInt(external_port)).value
                  /\ SendsLogin(env.password, env.onepassword)
    IN \E login_http \in (IF starts THEN FrontLoginOutcomes ELSE {NoResponse}) :
         \E caught \in JsonErrorCaught(login_http) :
           LET logged_in ==
                 /\ starts
                 /\ GetAuthenticatedClient(env, login_http, caught).ret.kind
                      = "return"
           IN \E get_http \in (IF logged_in THEN FrontGetOutcomes
                               ELSE {NoResponse}),
                 logout_http \in (IF logged_in THEN LogoutOutcomes
                                  ELSE {NoResponse}) :
                \E delete_http \in (IF logged_in
                                       /\ FrontDeletes(
                                            GetAuthenticatedClient(
                                              env, login_http, caught).self,
                                            get_http, external_port)
                                    THEN FrontDeleteOutcomes
                                    ELSE {NoResponse}) :
                  /\ \E done \in {ServerClosePort(external_port, env, login_http,
                                                 caught, get_http, TRUE,
                                                 delete_http, logout_http)} :
                       /\ FrontFinish(done)
                       /\ last' = [op |-> "server.close_port",
                                   external_port |-> external_port,
                                   env |-> env, login_http |-> login_http,
                                   get_http |-> get_http,
                                   delete_http |-> delete_http,
                                   logout_http |-> logout_http,
                                   ret |-> done.ret, reqs |-> done.reqs,
                                   calls |-> done.calls]

ServerListPortForwardsCall ==
  \E env \in SessionEnvironments :
    \E login_http \in (IF SendsLogin(env.password, env.onepassword)
                       THEN FrontLoginOutcomes ELSE {NoResponse}) :
      \E caught \in JsonErrorCaught(login_http) :
        LET logged_in ==
              /\ SendsLogin(env.password, env.onepassword)
              /\ GetAuthenticatedClient(env, login_http, caught).ret.kind
                   = "return"
        IN \E get_http \in (IF logged_in THEN FrontGetOutcomes
                            ELSE {NoResponse}),
              logout_http \in (IF logged_in THEN LogoutOutcomes
                               ELSE {NoResponse}) :
             /\ \E done \in {ServerListPortForwards(env, login_http, caught,
                                                   get_http, TRUE, logout_http)} :
                  /\ FrontFinish(done)
                  /\ last' = [op |-> "server.list_port_forwards",
                              env |-> env, login_http |-> login_http,
                              get_http |-> get_http,
                              logout_http |-> logout_http,
                              ret |-> done.ret, reqs |-> done.reqs,
                              calls |-> done.calls]

ServerGetRouterSessionUrlCall ==
  \E env \in Environments :
    /\ \E done \in {ServerGetRouterSessionUrl(env)} :
         /\ FrontFinish(done)
         /\ last' = [op |-> "server.get_router_session_url", env |-> env,
                     ret |-> done.ret, reqs |-> done.reqs, calls |-> done.calls]

ServerLogoutCall ==
  \E env \in SessionEnvironments :
    \E login_http \in (IF SendsLogin(env.password, env.onepassword)
                       THEN FrontLoginOutcomes ELSE {NoResponse}) :
      \E caught \in JsonErrorCaught(login_http) :
        LET logged_in ==
              /\ SendsLogin(env.password, env.onepassword)
              /\ GetAuthenticatedClient(env, login_http, caught).ret.kind
                   = "return"
        IN \E logout_http \in (IF logged_in THEN LogoutOutcomes
                               ELSE {NoResponse}) :
             /\ \E done \in {ServerLogout(env, login_http, caught, logout_http)} :
                  /\ FrontFinish(done)
                  /\ last' = [op |-> "server.logout",
                              env |-> env, login_http |-> login_http,
                              logout_http |-> logout_http,
                              ret |-> done.ret, reqs |-> done.reqs,
                              calls |-> done.calls]

ServerOpenRouterInBrowserCall ==
  \E env \in SessionEnvironments, browser \in BrowserOutcomes :
    \E login_http \in (IF SendsLogin(env.password, env.onepassword)
                       THEN FrontLoginOutcomes ELSE {NoResponse}) :
      \E caught \in JsonErrorCaught(login_http) :
        LET logged_in ==
              /\ SendsLogin(env.password, env.onepassword)
              /\ GetAuthenticatedClient(env, login_http, caught).ret.kind
                   = "return"
        IN \E logout_http \in (IF logged_in THEN LogoutOutcomes
                               ELSE {NoResponse}) :
             /\ \E done \in {ServerOpenRouterInBrowser(env, login_http, caught,
                                                      logout_http, browser)} :
                  /\ FrontFinish(done)
                  /\ last' = [op |-> "server.open_router_in_browser",
                              env |-> env, login_http |-> login_http,
                              logout_http |-> logout_http, browser |-> browser,
                              ret |-> done.ret, reqs |-> done.reqs,
                              calls |-> done.calls]

\* the client of a command of the CLI after authenticate
CliSession(argv, env, login_http, caught) ==
  LET client == ClientInit([host |-> argv.host], env.ip).value
  IN After(client, Authenticate(client, env.password, env.onepassword,
                                login_http, caught))

\* whether a command of the CLI has a session after authenticate
CliLoggedIn(argv, env, login_http, caught) ==
  /\ SendsLogin(env.password, env.onepassword)
  /\ Authenticate(ClientInit([host |-> argv.host], env.ip).value,
                  env.password, env.onepassword, login_http, caught).ret
       = Return(TRUE)

CliMainCloseCall ==
  \E argv \in CloseCommandLines, env \in SessionEnvironments :
    LET port_ == IntOf(PyStr(argv.port))
        starts == /\ port_.kind = "return"
                  /\ port_.value # 0
                  /\ ValidatePort(PyInt(port_.value)).value
                  /\ SendsLogin(env.password, env.onepassword)
    IN \E login_http \in (IF starts THEN FrontLoginOutcomes ELSE {NoResponse}) :
         \E caught \in JsonErrorCaught(login_http) :
           LET logged_in == starts /\ CliLoggedIn(argv, env, login_http, caught)
           IN \E get_http \in (IF logged_in THEN FrontGetOutcomes
                               ELSE {NoResponse}) :
                \E delete_http \in (IF logged_in
                                       /\ FrontDeletes(
                                            CliSession(argv, env, login_http,
                                                       caught),
                                            get_http, port_.value)
                                    THEN FrontDeleteOutcomes
                                    ELSE {NoResponse}) :
                  /\ \E done \in {CliMainClose(argv, env, login_http, caught,
                                              get_http, TRUE, delete_http)} :
                       /\ FrontFinish(done)
                       /\ last' = [op |-> "cli.main close", argv |-> argv,
                                   env |-> env, login_http |-> login_http,
                                   get_http |-> get_http,
                                   delete_http |-> delete_http,
                                   ret |-> done.ret, reqs |-> done.reqs,
                                   calls |-> done.calls]

CliMainListCall ==
  \E argv \in SessionCommandLines, env \in SessionEnvironments :
    \E login_http \in (IF SendsLogin(env.password, env.onepassword)
                       THEN FrontLoginOutcomes ELSE {NoResponse}) :
      \E caught \in JsonErrorCaught(login_http) :
        \E get_http \in (IF CliLoggedIn(argv, env, login_http, caught)
                         THEN FrontGetOutcomes ELSE {NoResponse}) :
          /\ \E done \in {CliMainList(argv, env, login_http, caught, get_http, TRUE)} :
               /\ FrontFinish(done)
               /\ last' = [op |-> "cli.main list", argv |-> argv,
                           env |-> env, login_http |-> login_http,
                           get_http |-> get_http,
                           ret |-> done.ret, reqs |-> done.reqs,
                           calls |-> done.calls]

CliMainBrowserCall ==
  \E argv \in SessionCommandLines, env \in SessionEnvironments :
    \E login_http \in (IF SendsLogin(env.password, env.onepassword)
                       THEN FrontLoginOutcomes ELSE {NoResponse}) :
      \E caught \in JsonErrorCaught(login_http) :
        LET logged_in == CliLoggedIn(argv, env, login_http, caught)
        IN \E logout_http \in (IF logged_in THEN LogoutOutcomes
                               ELSE {NoResponse}),
              browser \in (IF logged_in /\ ~argv.json THEN BrowserOutcomes
                           ELSE {"ok"}) :
             /\ \E done \in {CliMainBrowser(argv, env, login_http, caught,
                                           logout_http, browser)} :
                  /\ FrontFinish(done)
                  /\ last' = [op |-> "cli.main browser", argv |-> argv,
                              env |-> env, login_http |-> login_http,
                              logout_http |-> logout_http, browser |-> browser,
                              ret |-> done.ret, reqs |-> done.reqs,
                              calls |-> done.calls]

FrontNext ==
  \/ ServerOpenPortCall
  \/ ServerClosePortCall
  \/ ServerListPortForwardsCall
  \/ ServerGetRouterSessionUrlCall
  \/ ServerLogoutCall
  \/ ServerOpenRouterInBrowserCall
  \/ CliMainCall
  \/ CliMainCloseCall
  \/ CliMainListCall
  \/ CliMainBrowserCall

FrontSpec == FrontInit /\ [][FrontNext]_vars

-----------------------------------------------------------------------------
(* Vocabulary of the properties *)

\* the request got no answer, or an answer with an error status
Failed(http) ==
  \/ http.kind = "transport_error"
  \/ http.kind = "response" /\ RaisesForStatus(http.status)

\* the answer arrived with a status that is no error
Answered(http) == http.kind = "response" /\ ~RaisesForStatus(http.status)

\* the login answer is a JSON object whose `created` is absent or an object,
\* and holds no non-empty token
CarriesNoToken(http) ==
  /\ Answered(http)
  /\ http.body.t = "dict"
  /\ "created" \in DOMAIN http.body.v =>
       /\ http.body.v.created.t = "dict"
       /\ Get(http.body.v.created.v, "token", "") = ""

\* the login answer's `created` object holds a non-empty token
CarriesToken(http) ==
  /\ Answered(http)
  /\ http.body.t = "dict"
  /\ "created" \in DOMAIN http.body.v
  /\ http.body.v.created.t = "dict"
  /\ "token" \in DOMAIN http.body.v.created.v
  /\ http.body.v.created.v.token # ""

Sent(method) == SelectSeq(last.reqs, LAMBDA r : r.method = method)

\* the rule list the router listed in answer to the GET: the empty list
\* when the GET failed or its body holds no list where the client looks
ListedRules(http) ==
  IF Answered(http)
     /\ \E l \in RuleLists : http.body \in {Nested(l), UnderPortForwarding(l)}
  THEN CHOOSE l \in RuleLists : http.body \in {Nested(l), UnderPortForwarding(l)}
  ELSE <<>>

IsRule(item) == item.t = "dict" /\ "rule" \in DOMAIN item.v

\* the listed wire rules whose first external port is p
WireMatches(http, p) ==
  SelectSeq(ListedRules(http),
            LAMBDA item : IsRule(item) /\ item.v.rule.externalStartPort = p)

-----------------------------------------------------------------------------
(* C1 *)

\* C1: whenever authenticate's login request fails (transport error or HTTP
\* error status) or the answer carries no token, authenticate returns false
\* and the client's token is unset afterwards, whatever the client held
\* before the call.
C1_FailedLoginLeavesNoToken ==
  (last.op = "authenticate" /\ (Failed(last.http) \/ CarriesNoToken(last.http)))
    => (last.ret = Return(FALSE) /\ ~Truthy(token))

-----------------------------------------------------------------------------
(* C2 *)

\* C2: authenticate returns true exactly when the login request was answered
\* without an error status and the answer's `created` object holds a
\* non-empty token; then the client's token and user_id are the answer's
\* `token` and `userId`.
C2_TrueIffTokenInCreated ==
  last.op = "authenticate" =>
    /\ (last.ret = Return(TRUE)) <=> CarriesToken(last.http)
    /\ last.ret = Return(TRUE) =>
         /\ token = last.http.body.v.created.v.token
         /\ user_id = Get(last.http.body.v.created.v, "userId", None)

C2_Witness ==
  /\ last.op = "authenticate"
  /\ last.ret = Return(TRUE)
  /\ token = "t1"
  /\ user_id = "u1"
  /\ last.http = Response(200, Dict([created |-> Dict([token |-> "t1", userId |-> "u1"])]))

-----------------------------------------------------------------------------
(* C3 *)

\* C3: authenticate never raises: every call ends by returning a boolean.
C3_AuthenticateNeverRaises ==
  last.op = "authenticate" => (last.ret.kind = "return" /\ last.ret.value \in BOOLEAN)

-----------------------------------------------------------------------------
(* C4 *)

\* C4: after logout, from any client state and whatever became of the
\* DELETE, token and user_id are both unset and the call returned true.
C4_LogoutClearsSession ==
  last.op = "logout" =>
    (~Truthy(token) /\ user_id = None /\ last.ret = Return(TRUE))

-----------------------------------------------------------------------------
(* C5 *)

\* C5: remove_port_forward_by_port(p) sends a DELETE if and only if exactly
\* one listed rule has external port p; with no match or several matches
\* it sends no DELETE and what it returns is false.
C5_DeleteIffExactlyOneMatch ==
  last.op = "remove_port_forward_by_port" =>
    LET n == Len(WireMatches(last.http, last.external_port))
    IN /\ (Len(Sent("DELETE")) > 0) <=> (n = 1)
       /\ (last.ret.kind = "return" /\ n # 1) =>
            (last.ret = Return(FALSE) /\ Len(Sent("DELETE")) = 0)

\* two listed rules share the external port: the call refuses
C5_Witness ==
  /\ last.op = "remove_port_forward_by_port"
  /\ Len(WireMatches(last.http, last.external_port)) = 2
  /\ last.ret = Return(FALSE)
  /\ Len(last.reqs) = 1

-----------------------------------------------------------------------------
(* C6 *)

\* the DELETE body the claim describes, for the normalized record rec
C6_ExpectedBody(rec) ==
  [portforwarding |->
     [rules |-> <<[id |-> rec.id,
                   rule |-> [enable |-> rec.enabled,
                             externalStartPort |-> rec.externalPort,
                             externalEndPort |-> rec.externalPort,
                             localStartPort |-> rec.localPort,
                             localEndPort |-> rec.localPort,
                             localAddress |-> rec.localAddress,
                             protocol |-> [i \in DOMAIN rec.protocol |->
                                             IF rec.protocol[i] = "/" THEN "_"
                                             ELSE rec.protocol[i]],
                             readOnly |-> FALSE]]>>]]

-----------------------------------------------------------------------------
(* C7 *)

\* C7: the rule that remove_port_forward_by_port's DELETE carries is the
\* wire rule the router listed: the same id and the same rule body, end
\* ports included.
C7_DeleteEchoesWireRule ==
  (last.op = "remove_port_forward_by_port" /\ Len(Sent("DELETE")) = 1) =>
    LET wire == WireMatches(last.http, last.external_port)[1]
        sent == Sent("DELETE")[1].json.portforwarding.rules[1]
    IN sent.id = wire.v.id /\ sent.rule = wire.v.rule

-----------------------------------------------------------------------------
(* C8 *)

\* C8: on a successful GET of the nested envelope, get_port_forwards
\* returns one normalized record per wire rule, in order, with the fields
\* the claim lists; tcp stays tcp and tcp_udp becomes tcp/udp.
C8_NormalizedRecords ==
  \A l \in RuleLists :
    (/\ last.op = "get_port_forwards"
     /\ last.http = Response(200, Nested(l))
     /\ \A i \in DOMAIN l : l[i] \in WireRules) =>
      /\ last.ret.kind = "return"
      /\ Len(last.ret.value) = Len(l)
      /\ \A i \in DOMAIN l :
           LET rec == last.ret.value[i]
               wire == l[i].v
           IN /\ DOMAIN rec = {"id", "name", "localAddress", "localPort",
                               "externalPort", "protocol", "enabled"}
              /\ rec.id = wire.id
              /\ rec.name = "Rule " \o ToString(wire.id)
              /\ rec.localAddress = wire.rule.localAddress
              /\ rec.localPort = wire.rule.localStartPort
              /\ rec.externalPort = wire.rule.externalStartPort
              /\ Len(rec.protocol) = Len(wire.rule.protocol)
              /\ \A k \in DOMAIN rec.protocol :
                   rec.protocol[k] = IF wire.rule.protocol[k] = "_" THEN "/"
                                     ELSE wire.rule.protocol[k]
              /\ wire.rule.protocol = tcp => rec.protocol = tcp
              /\ wire.rule.protocol = tcp_udp =>
                   rec.protocol = <<"t", "c", "p", "/", "u", "d", "p">>
              /\ rec.enabled = wire.rule.enable

\* the two rules of the client's test, listed in order
C8_Witness ==
  /\ last.op = "get_port_forwards"
  /\ last.ret.kind = "return"
  /\ Len(last.ret.value) = 2
  /\ last.ret.value[1].id = 1 /\ last.ret.value[1].protocol = tcp
  /\ last.ret.value[1].externalPort = 8080 /\ last.ret.value[1].enabled
  /\ last.ret.value[2].id = 2
  /\ last.ret.value[2].protocol = <<"t", "c", "p", "/", "u", "d", "p">>
  /\ ~last.ret.value[2].enabled
  /\ last.http.body.v.portforwarding.t = "dict"

-----------------------------------------------------------------------------
(* C9 *)

\* C9: a rule list that is not nested under `rules` (the `portforwarding`
\* value is the list, or the body is the list) yields the records that the
\* nested form of the same list yields.
C9_BareListSameAsNested ==
  \A l \in RuleLists :
    (/\ last.op = "get_port_forwards"
     /\ last.http \in {Response(200, UnderPortForwarding(l)), Response(200, BareList(l))}) =>
      last.ret = Return(FormatRules(l))

-----------------------------------------------------------------------------
(* C10 *)

\* C10: when a request of get_port_forwards, add_port_forward or
\* remove_port_forward_by_port meets a transport failure or an HTTP error
\* status, the call raises nothing: get_port_forwards returns the empty
\* list, add and remove return false.
C10_TransportFailureDegrades ==
  /\ (last.op = "get_port_forwards" /\ Failed(last.http)) => last.ret = Return(<<>>)
  /\ (last.op = "add_port_forward" /\ Failed(last.http)) => last.ret = Return(FALSE)
  /\ (last.op = "remove_port_forward_by_port"
      /\ (Failed(last.http) \/ Failed(last.delete_http))) => last.ret = Return(FALSE)

\* the GET listed the rule and the DELETE met a transport failure
C10_Witness ==
  /\ last.op = "remove_port_forward_by_port"
  /\ Len(last.reqs) = 2
  /\ last.delete_http = TransportError
  /\ last.ret = Return(FALSE)

-----------------------------------------------------------------------------
(* C11: add_port_forward(rule) POSTs exactly the body {rule: {...}} with   *)
(* the seven fields localAddress, localStartPort, localEndPort,            *)
(* externalStartPort, externalEndPort, protocol and enable: both ends of   *)
(* each range are the rule's port, the protocol is lower-cased, enable is  *)
(* rule.enabled, and the rule's name is not in the payload.                *)

\* the lower-case spelling of the protocols the callers pass
C11_LowerCased(protocol) ==
  IF protocol = <<"U", "D", "P">> THEN udp ELSE protocol

C11_AddPostsExactPayload ==
  last.op = "add_port_forward" /\ last.reqs # <<>> =>
    /\ Len(last.reqs) = 1
    /\ last.reqs[1].method = "POST"
    /\ last.reqs[1].path = PortForwardingPath
    /\ DOMAIN last.reqs[1].json = {"rule"}
    /\ LET sent == last.reqs[1].json.rule
       IN /\ DOMAIN sent = {"localAddress", "localStartPort", "localEndPort",
                            "externalStartPort", "externalEndPort", "protocol",
                            "enable"}
          /\ sent.localAddress = last.rule.local_address
          /\ sent.localStartPort = last.rule.local_port
          /\ sent.localEndPort = last.rule.local_port
          /\ sent.externalStartPort = last.rule.external_port
          /\ sent.externalEndPort = last.rule.external_port
          /\ sent.protocol = C11_LowerCased(last.rule.protocol)
          /\ sent.enable = last.rule.enabled

\* a disabled rule given as "UDP" was posted as "udp"
C11_Witness ==
  /\ last.op = "add_port_forward"
  /\ last.rule.protocol = <<"U", "D", "P">>
  /\ ~last.rule.enabled
  /\ Len(last.reqs) = 1
  /\ last.reqs[1].json.rule.protocol = udp
  /\ last.reqs[1].json.rule.enable = FALSE

-----------------------------------------------------------------------------
(* C12: add_port_forward returns true if and only if its POST completed    *)
(* with a 2xx status: over every status class and a transport failure,     *)
(* true is returned exactly for 2xx.                                       *)

C12_TrueIffStatus2xx ==
  last.op = "add_port_forward" /\ last.reqs # <<>> =>
    (last.ret = Return(TRUE)
       <=> last.http.kind = "response"
           /\ last.http.status >= 200 /\ last.http.status < 300)

-----------------------------------------------------------------------------
(* C13: for every rule with ports in 1..65535, a protocol among tcp, udp   *)
(* and tcp_udp and either enabled value, to_rest_payload followed by the   *)
(* normalization of get_port_forwards yields the same local port,          *)
(* external port, local address and enabled flag, and a protocol equal to  *)
(* the original once "/" is mapped back to "_".                            *)

C13_RoundTrip ==
  last.op = "format_rules" =>
    /\ Len(last.ret) = 1
    /\ last.ret[1].localPort = last.rule.local_port
    /\ last.ret[1].externalPort = last.rule.external_port
    /\ last.ret[1].localAddress = last.rule.local_address
    /\ last.ret[1].enabled = last.rule.enabled
    /\ Replace(last.ret[1].protocol, "/", "_") = last.rule.protocol

\* a disabled tcp_udp rule from port 65535 to port 1 came back as tcp/udp
C13_Witness ==
  /\ last.op = "format_rules"
  /\ last.rule.protocol = tcp_udp
  /\ last.rule.local_port = 65535
  /\ last.rule.external_port = 1
  /\ ~last.rule.enabled
  /\ last.ret[1].protocol = <<"t", "c", "p", "/", "u", "d", "p">>
  /\ last.ret[1].localPort = 65535
  /\ last.ret[1].externalPort = 1
  /\ last.ret[1].enabled = FALSE

-----------------------------------------------------------------------------
(* C14: the password authenticate uses is the first available of an        *)
(* explicit value given to the constructor, the environment variable       *)
(* SAGEMCOM_MODEM_PASSWORD and the 1Password lookup; authenticate fails    *)
(* without a login request only when all of them are absent.  A source is  *)
(* read as available when it yields a non-empty value.                     *)

C14_Available(call) ==
  SelectSeq(<<call.env,
              IF call.onepassword.kind = "stdout" THEN call.onepassword.value
              ELSE None>>,
            Truthy)

C14_PasswordPrecedence ==
  /\ last.op = "create_router_client" /\ "password" \in DOMAIN last.kwargs =>
       last.ret.kind = "return"
  /\ last.op = "authenticate" =>
       /\ C14_Available(last) # <<>> =>
            /\ Len(last.reqs) = 1
            /\ last.reqs[1].path = LoginPath
            /\ last.reqs[1].json.password = C14_Available(last)[1]
       /\ C14_Available(last) = <<>> =>
            last.ret = Return(FALSE) /\ last.reqs = <<>>

-----------------------------------------------------------------------------
(* C15: validate_port(p) is true if and only if p denotes an integer n     *)
(* with 1 <= n <= 65535, for p an integer, a decimal-digit string, a       *)
(* non-numeric string or None; it is false for 0, 65536, negative          *)
(* numbers, non-numeric strings and None, and it never raises.             *)

\* the integer each numeric string among the inputs denotes
C15_StringDenotes ==
  {<<<<"0">>, 0>>, <<<<"1">>, 1>>, <<<<"8", "0", "8", "0">>, 8080>>,
   <<<<"6", "5", "5", "3", "5">>, 65535>>, <<<<"6", "5", "5", "3", "6">>, 65536>>,
   <<<<"0", "8", "0">>, 80>>, <<<<" ", "8", "0">>, 80>>, <<<<"-", "5">>, 0 - 5>>}

C15_DenotesPort(p) ==
  CASE p.t = "int" -> 1 <= p.v /\ p.v <= 65535
    [] p.t = "str" -> \E d \in C15_StringDenotes :
                        d[1] = p.v /\ 1 <= d[2] /\ d[2] <= 65535
    [] OTHER -> FALSE

C15_ValidatePortIffInRange ==
  last.op = "validate_port" =>
    /\ last.ret.kind = "return"
    /\ last.ret.value <=> C15_DenotesPort(last.port)

\* the string "65535" was accepted
C15_Witness ==
  /\ last.op = "validate_port"
  /\ last.port.t = "str"
  /\ last.port.v = <<"6", "5", "5", "3", "5">>
  /\ last.ret = Return(TRUE)

-----------------------------------------------------------------------------
(* C16: expand_ip_shorthand(s) returns "192.168.178." followed by s when   *)
(* s is a string of digits denoting a host number in range, and returns s  *)
(* unchanged in every other case (a dotted address, a non-numeric string,  *)
(* an out-of-range number such as 0, 255 or 256); consequently it is       *)
(* idempotent.                                                             *)

\* the inputs that are digit strings denoting a host number in 1..254
C16_HostNumbers ==
  {<<"1">>, <<"1", "0", "0">>, <<"2", "5", "4">>, <<"0", "0", "7">>}

C16_ExpandsHostNumbersOnly ==
  last.op = "expand_ip_shorthand" =>
    /\ last.ret.kind = "return"
    /\ last.ret.value = IF last.ip \in C16_HostNumbers
                        THEN SubnetPrefix \o last.ip ELSE last.ip
    /\ ExpandIpShorthand(last.ret.value) = last.ret

-----------------------------------------------------------------------------
(* C17: every rule that reaches the router through a front-end (the CLI    *)
(* command `open` or the MCP tool open_port) has both ports in 1..65535    *)
(* and a protocol among tcp, udp and tcp_udp; an input violating this is   *)
(* rejected before any POST of a rule.                                     *)

C17_FrontEndsPostValidRules ==
  last.op \in {"server.open_port", "cli.main open"} =>
    \A i \in DOMAIN last.reqs :
      last.reqs[i].method = "POST" /\ last.reqs[i].path = PortForwardingPath =>
        /\ last.reqs[i].json.rule.localStartPort \in 1..65535
        /\ last.reqs[i].json.rule.externalStartPort \in 1..65535
        /\ last.reqs[i].json.rule.protocol \in {tcp, udp, tcp_udp}

-----------------------------------------------------------------------------
(* C18: every request the client sends to an authenticated endpoint (GET,  *)
(* POST and DELETE of network/portforwarding and the logout DELETE)        *)
(* carries Authorization: Bearer <t> with t the non-empty token the client *)
(* holds when the operation starts; while the token is unset no such       *)
(* request is sent: the rule operations raise before sending and logout    *)
(* returns without sending.                                                *)

C18_Step ==
  /\ \A i \in DOMAIN last'.reqs :
       last'.reqs[i].path # LoginPath =>
         /\ Truthy(token)
         /\ last'.reqs[i].headers = [Authorization |-> <<"Bearer", token>>]
  /\ ~Truthy(token) /\ last'.op \in {"get_port_forwards", "add_port_forward",
                                     "remove_port_forward_by_port"} =>
       last'.ret = Raise("ValueError") /\ last'.reqs = <<>>

C18_BearerOnEveryAuthenticatedRequest == [][C18_Step]_vars

\* a removal sent its GET and its DELETE under the token the client holds
C18_Witness ==
  /\ last.op = "remove_port_forward_by_port"
  /\ Len(last.reqs) = 2
  /\ token = "t1"
  /\ last.reqs[1].headers = [Authorization |-> <<"Bearer", "t1">>]
  /\ last.reqs[2].method = "DELETE"
  /\ last.reqs[2].headers = [Authorization |-> <<"Bearer", "t1">>]

-----------------------------------------------------------------------------
(* C19: no retry.  Within one invocation authenticate, get_port_forwards,  *)
(* add_port_forward and logout each send at most one request, and          *)
(* remove_port_forward_by_port sends at most one GET followed by at most   *)
(* one DELETE; after a request fails the operation returns its negative    *)
(* result (logout, which has none, just returns) without sending that      *)
(* request again.                                                          *)

C19_NoRetry ==
  /\ last.op \in {"authenticate", "get_port_forwards", "add_port_forward",
                  "logout"} =>
       /\ Len(last.reqs) <= 1
       /\ last.reqs # <<>> /\ Failed(last.http) =>
            \/ last.op = "authenticate" /\ last.ret = Return(FALSE)
            \/ last.op = "get_port_forwards" /\ last.ret = Return(<<>>)
            \/ last.op = "add_port_forward" /\ last.ret = Return(FALSE)
            \/ last.op = "logout"
  /\ last.op = "remove_port_forward_by_port" =>
       /\ Len(Sent("GET")) <= 1
       /\ Len(Sent("DELETE")) <= 1
       /\ last.reqs = Sent("GET") \o Sent("DELETE")
       /\ Sent("DELETE") # <<>> => Sent("GET") # <<>>
       /\ last.reqs # <<>> /\ Failed(last.http) =>
            last.ret = Return(FALSE) /\ Len(last.reqs) = 1
       /\ Sent("DELETE") # <<>> /\ Failed(last.delete_http) =>
            last.ret = Return(FALSE) /\ Len(last.reqs) = 2

\* a POST that met a transport failure was sent once and reported as failed
C19_Witness ==
  /\ last.op = "add_port_forward"
  /\ last.http = TransportError
  /\ Len(last.reqs) = 1
  /\ last.ret = Return(FALSE)

-----------------------------------------------------------------------------
(* C20: get_session_url() returns the base URL http://<host>:<port> in     *)
(* every client state (before authentication, while authenticated, after   *)
(* logout), sends no request and leaves token and user_id unchanged.       *)

C20_Step ==
  last'.op = "get_session_url" =>
    /\ last'.ret = Return("http://" \o host \o ":" \o ToString(port))
    /\ last'.reqs = <<>>
    /\ token' = token
    /\ user_id' = user_id

C20_SessionUrlIsBaseUrl == [][C20_Step]_vars

\* asked of an authenticated client built for host 1.2.3.4
C20_Witness ==
  /\ last.op = "get_session_url"
  /\ token = "t1"
  /\ user_id = "u1"
  /\ last.ret = Return("http://1.2.3.4:80")

-----------------------------------------------------------------------------
(* C21 *)

\* how many times the front-end call made the call `name`
CallCount(name) ==
  Cardinality({i \in DOMAIN last.calls : last.calls[i] = Called(name)})

\* the place of the first call `name` among the calls, 0 if there is none
FirstCall(name) ==
  IF CallCount(name) = 0 THEN 0
  ELSE CHOOSE i \in DOMAIN last.calls :
         /\ last.calls[i] = Called(name)
         /\ \A j \in 1..(i - 1) : last.calls[j] # Called(name)

\* the MCP tools that work on the rules, and the client method of each
RuleTools ==
  [op \in {"server.open_port", "server.close_port",
           "server.list_port_forwards"} |->
     CASE op = "server.open_port" -> "add_port_forward"
       [] op = "server.close_port" -> "remove_port_forward_by_port"
       [] OTHER -> "get_port_forwards"]

\* the tool sent its login and the router answered with a token
C21_Authenticated ==
  /\ last.op \in DOMAIN RuleTools
  /\ CarriesToken(last.login_http)

\* C21: when open_port, close_port or list_port_forwards of the MCP server
\* has authenticated, it calls logout on that client exactly once, after the
\* client method and before it returns, whether the method succeeded,
\* failed or raised; and the client of a finished call of these tools holds
\* no token
C21_McpToolsLogOutOnce ==
  /\ C21_Authenticated =>
       /\ CallCount(RuleTools[last.op]) = 1
       /\ CallCount("logout") = 1
       /\ FirstCall(RuleTools[last.op]) < FirstCall("logout")
       /\ FirstCall("logout") = Len(last.calls)
  /\ last.op \in DOMAIN RuleTools => ~Truthy(token)

\* list_port_forwards authenticated, get_port_forwards raised on a body that
\* is a list, and the session was closed once
C21_Witness ==
  /\ C21_Authenticated
  /\ last.op = "server.list_port_forwards"
  /\ last.ret = Return(ErrorText("AttributeError"))
  /\ CallCount("logout") = 1
  /\ Len(Sent("DELETE")) = 1
  /\ token = None

-----------------------------------------------------------------------------
(* C22 *)

CliCommands ==
  {"cli.main open", "cli.main close", "cli.main list", "cli.main browser"}

\* C22: every command of the CLI that has authenticated (open, close, list,
\* browser) calls logout on its client before it returns, and the client
\* holds no token afterwards
C22_CliLogsOut ==
  (last.op \in CliCommands /\ CarriesToken(last.login_http)) =>
    /\ CallCount("logout") >= 1
    /\ ~Truthy(token)

-----------------------------------------------------------------------------
(* C23 *)

\* the texts after "Error: " in what a tool returns: the messages of the
\* tools and the exceptions they catch
ErrorMessages ==
  {"Invalid port number(s)", "Invalid port number",
   "Failed to create port forwarding rule",
   "Failed to remove port forwarding rule", "Failed to open browser",
   "Exception", "OSError", "TypeError", "ValueError", "AttributeError",
   "HTTPError", "FileNotFoundError", "CalledProcessError"}

\* the text begins with "Error:"
BeginsWithError(text) == \E m \in ErrorMessages : text = ErrorText(m)

\* a port number of the MCP tools, and one of the command line
IsPort(n) == n \in 1..65535
IsPortText(s) ==
  /\ IntOf(PyStr(s)).kind = "return"
  /\ IsPort(IntOf(PyStr(s)).value)

OpenAndClose ==
  [op \in {"server.open_port", "cli.main open",
           "server.close_port", "cli.main close"} |->
     IF op \in {"server.open_port", "cli.main open"}
     THEN "add_port_forward" ELSE "remove_port_forward_by_port"]

\* every port of the call is a port number
C23_PortsValid ==
  CASE last.op = "server.open_port" ->
         IsPort(last.args.local_port) /\ IsPort(last.args.external_port)
    [] last.op = "cli.main open" ->
         IsPortText(last.argv.local_port) /\ IsPortText(last.argv.external_port)
    [] last.op = "server.close_port" -> IsPort(last.external_port)
    [] last.op = "cli.main close" -> IsPortText(last.argv.port)
    [] OTHER -> FALSE

\* the call reports an error: the text of a tool begins with "Error:", the
\* CLI exits with a status other than 0 or with an exception
C23_ReportsError ==
  IF last.op \in {"server.open_port", "server.close_port"}
  THEN last.ret.kind = "return" /\ BeginsWithError(last.ret.value)
  ELSE last.ret.kind = "raise" \/ last.ret = Return(1)

\* C23: open and close of the CLI and of the MCP server validate the ports,
\* then authenticate, then call add_port_forward or
\* remove_port_forward_by_port: with an invalid port no client is created
\* and no request is sent; the client method is called only after valid
\* ports and a successful authenticate; in every other case the call
\* reports an error
C23_ValidateAuthenticateOperate ==
  last.op \in DOMAIN OpenAndClose =>
    /\ ~C23_PortsValid =>
         /\ host = None /\ token = None
         /\ last.calls = <<>>
         /\ last.reqs = <<>>
    /\ CallCount(OpenAndClose[last.op]) > 0 =>
         /\ C23_PortsValid
         /\ CarriesToken(last.login_http)
         /\ CallCount("authenticate") = 1
         /\ FirstCall("authenticate") < FirstCall(OpenAndClose[last.op])
         /\ last.reqs[1].method = "POST"
    /\ ~(C23_PortsValid /\ CarriesToken(last.login_http)) =>
         /\ CallCount(OpenAndClose[last.op]) = 0
         /\ C23_ReportsError

\* `close --port 8080` of the CLI logged in, listed the rules and deleted
\* the one rule of port 8080
C23_Witness ==
  /\ last.op = "cli.main close"
  /\ C23_PortsValid
  /\ last.calls = <<Called("create_router_client"), Called("authenticate"),
                    Called("remove_port_forward_by_port")>>
  /\ Len(Sent("DELETE")) = 1
  /\ last.ret = Return(0)

-----------------------------------------------------------------------------
(* C24 *)

BrowserFlows == {"server.open_router_in_browser", "cli.main browser"}

\* the places among the calls where the browser is launched
Launches ==
  {i \in DOMAIN last.calls : last.calls[i][1] = "subprocess.run"}

\* C24: when open_browser of the CLI or open_router_in_browser of the MCP
\* server has authenticated, it has called authenticate once and logout
\* once, and the browser is launched after the logout, on the URL
\* get_session_url returned; the tool always launches the browser, the CLI
\* unless --json asks for the URL alone
C24_LogsOutBeforeBrowser ==
  (last.op \in BrowserFlows /\ CarriesToken(last.login_http)) =>
    /\ CallCount("authenticate") = 1
    /\ CallCount("logout") = 1
    /\ Len(Sent("DELETE")) = 1
    /\ ~Truthy(token)
    /\ \A i \in Launches :
         /\ FirstCall("logout") < i
         /\ FirstCall("get_session_url") < i
         /\ last.calls[i] = Launched(base_url)
    /\ (last.op = "server.open_router_in_browser" \/ ~last.argv.json) =>
         Cardinality(Launches) = 1

\* `sagemcom-cli browser` logged in, logged out and opened the browser
C24_Witness ==
  /\ last.op = "cli.main browser"
  /\ CarriesToken(last.login_http)
  /\ last.calls = <<Called("create_router_client"), Called("authenticate"),
                    Called("logout"), Called("get_session_url"),
                    Launched(base_url)>>
  /\ host = "192.168.178.1"
  /\ last.ret = Return(0)

-----------------------------------------------------------------------------
(* C25 *)

\* C25: in every state of the client that calls of authenticate and logout
\* reach, whatever the router answers, user_id is set only if token is set
C25_UserIdOnlyWithToken == user_id # None => token # None

-----------------------------------------------------------------------------
(* C26 *)

\* C26: when SAGEMCOM_MODEM_PASSWORD is set, resolving the password runs no
\* 1Password CLI
C26_NoLookupWhenEnvSet ==
  (last.op = "_get_password" /\ last.env # None) => last.runs = <<>>

-----------------------------------------------------------------------------
(* C27 *)

McpTools ==
  {"server.open_port", "server.close_port", "server.list_port_forwards",
   "server.get_router_session_url", "server.logout",
   "server.open_router_in_browser"}

\* the router answered the request with a status from 200 to 299
Accepted(http) == http.kind = "response" /\ http.status \in 200..299

\* what the tool was called for has been done: the rule posted or deleted
\* and accepted by the router, the rules fetched, the session of the
\* logout tool opened and closed by the client, the browser opened
C27_Succeeded ==
  CASE last.op = "server.open_port" ->
         CarriesToken(last.login_http) /\ Accepted(last.add_http)
    [] last.op = "server.close_port" ->
         CarriesToken(last.login_http) /\ Accepted(last.delete_http)
    [] last.op = "server.list_port_forwards" ->
         CarriesToken(last.login_http) /\ Accepted(last.get_http)
    [] last.op = "server.logout" -> CarriesToken(last.login_http)
    [] last.op = "server.open_router_in_browser" -> last.browser = "ok"
    [] OTHER -> TRUE

\* C27: no tool of the MCP server raises to its caller: whatever happens to
\* the authentication, to the rule operation and to the logout, it returns
\* a text, and the text begins with "Error:" whenever the operation did
\* not succeed
C27_ToolsReturnErrorText ==
  last.op \in McpTools =>
    /\ last.ret.kind = "return"
    /\ ~C27_Succeeded => BeginsWithError(last.ret.value)

====
